---- MODULE Spec2Model ----
(***************************************************************************)
(* Model of src/graphQL/builtins/createCredentialTypes.js:                 *)
(*   - the credential collection resolvers (createCredentialResolve),      *)
(*   - the Facebook, Google and Twitter picture resolvers,                 *)
(*   - IsConnectionValidator.validate.                                     *)
(* Strings the code inspects (the stored picture URLs) are sequences of    *)
(* one-character strings; strings the code only builds are TLA+ strings or *)
(* sequences of their pieces.                                              *)
(***************************************************************************)
EXTENDS Integers, Sequences, FiniteSets, TLC

VARIABLES user, schema, parameters, rule, seen, last

vars == <<user, schema, parameters, rule, seen, last>>

(***************************************************************************)
(* Bounds of the model.                                                    *)
(***************************************************************************)
\* number of segments a stored Twitter picture URL is built from
MaxSegs == 3
\* number of query parameters of a stored Google picture URL
MaxParams == 2
\* number of validate calls in one run
MaxCalls == 3

(***************************************************************************)
(* JavaScript values.                                                      *)
(***************************************************************************)
Undefined == [tag |-> "undefined"]
Null == [tag |-> "null"]
Str(cs) == [tag |-> "string", chars |-> cs]
Num(n) == [tag |-> "number", n |-> n]

\* JavaScript truthiness of a value: !v is ~Truthy(v)
Truthy(v) ==
  CASE v.tag = "undefined" -> FALSE
    [] v.tag = "null" -> FALSE
    [] v.tag = "string" -> v.chars # <<>>
    [] v.tag = "number" -> v.n # 0
    [] OTHER -> TRUE

\* obj[key] of an object given as a function on the keys it has
Get(obj, key) == IF key \in DOMAIN obj THEN obj[key] ELSE Undefined

Return(v) == [kind |-> "return", value |-> v]
Throw(e, m) == [kind |-> "throw", error |-> e, message |-> m]

(***************************************************************************)
(* Sequence helpers standing for the String methods the code calls.        *)
(***************************************************************************)
\* least index at which pat occurs in s, 0 when it does not occur
IndexOf(s, pat) ==
  LET hits == {i \in 1..(Len(s) - Len(pat) + 1) :
                 SubSeq(s, i, i + Len(pat) - 1) = pat}
  IN IF hits = {} THEN 0 ELSE CHOOSE i \in hits : \A j \in hits : i <= j

\* String.prototype.replace with a non-global literal pattern: the first
\* occurrence only
ReplaceFirst(s, pat, rep) ==
  LET i == IndexOf(s, pat)
  IN IF i = 0 THEN s
     ELSE SubSeq(s, 1, i - 1) \o rep \o SubSeq(s, i + Len(pat), Len(s))

RECURSIVE Concat(_)
Concat(ss) == IF ss = <<>> THEN <<>> ELSE Head(ss) \o Concat(Tail(ss))

Digit(d) == CASE d = 0 -> "0" [] d = 1 -> "1" [] d = 2 -> "2" [] d = 3 -> "3"
              [] d = 4 -> "4" [] d = 5 -> "5" [] d = 6 -> "6" [] d = 7 -> "7"
              [] d = 8 -> "8" [] d = 9 -> "9"

RECURSIVE NatToChars(_)
NatToChars(n) ==
  IF n < 10 THEN <<Digit(n)>> ELSE NatToChars(n \div 10) \o <<Digit(n % 10)>>

\* String(n) for an integer n
IntToChars(n) == IF n < 0 THEN <<"-">> \o NatToChars(0 - n) ELSE NatToChars(n)

\* the characters cs as one string
RECURSIVE JoinChars(_)
JoinChars(cs) == IF cs = <<>> THEN "" ELSE Head(cs) \o JoinChars(Tail(cs))

IntToString(n) == JoinChars(IntToChars(n))

(***************************************************************************)
(* The credential collection.                                              *)
(***************************************************************************)
Providers == {"auth0", "facebook", "github", "google", "twitter"}

\* faulty variant: comparison of object identity, never true of two IDs
IsEqualRef(a, b) == FALSE
\* lodash isEqual on node IDs: deep (structural) equality
IsEqual(a, b) == a = b

\* the template string of the UserError, as its pieces in order; Backtick
\* stands for the one character a TLA+ string cannot hold
Backtick == "<backtick>"
PermissionMessage(provider) ==
  <<"User lacks permissions to read nodes of type ", Backtick, "User",
    Backtick, " with fields ", Backtick, "credentials.", provider, Backtick,
    ".">>

\* faulty variant: without the permission test
CredentialResolveOpen(provider, parent, context) == Return(parent.creds[provider])
\* (parent, args, context) => ... of createCredentialResolve(provider)
CredentialResolve(provider, parent, context) ==
  LET credentials == context.credentials
  IN IF credentials.isAdmin \/ IsEqual(credentials.userID, parent.node.id)
     THEN Return(parent.creds[provider])
     ELSE Throw("UserError", PermissionMessage(provider))

\* the resolve of each field of ReindexCredentialCollection
CollectionFieldProvider(field) ==
  CASE field = "auth0" -> "auth0"
    [] field = "facebook" -> "facebook"
    [] field = "github" -> "github"
    [] field = "google" -> "google"
    [] field = "twitter" -> "twitter"

CollectionResolve(field, parent, context) ==
  CredentialResolve(CollectionFieldProvider(field), parent, context)

(***************************************************************************)
(* ReindexFacebookCredential.picture                                       *)
(***************************************************************************)
\* lodash pick(args, 'width', 'height'): the named keys args has, in the
\* order named, as <<key, value>> pairs
Pick(args, keys) ==
  LET present == {i \in 1..Len(keys) : keys[i] \in DOMAIN args}
      F[i \in 0..Len(keys)] ==
        IF i = 0 THEN <<>>
        ELSE IF i \in present THEN Append(F[i - 1], <<keys[i], args[keys[i]]>>)
        ELSE F[i - 1]
  IN F[Len(keys)]

\* faulty variant: Qs.stringify without skipNulls, a null value gives key=
RECURSIVE QsStringifyKeepNulls(_)
QsStringifyKeepNulls(pairs) ==
  IF pairs = <<>> THEN ""
  ELSE LET k == Head(pairs)[1]
           v == Head(pairs)[2]
           rest == QsStringifyKeepNulls(Tail(pairs))
           this == IF v.tag = "number" THEN k \o "=" \o IntToString(v.n)
                   ELSE k \o "="
       IN IF v.tag = "undefined" THEN rest
          ELSE IF rest = "" THEN this ELSE this \o "&" \o rest
\* Qs.stringify(obj, { skipNulls: true }) of a flat object of numbers:
\* null (and undefined) values are skipped, the rest joined as key=value by &
RECURSIVE QsStringify(_)
QsStringify(pairs) ==
  IF pairs = <<>> THEN ""
  ELSE LET k == Head(pairs)[1]
           v == Head(pairs)[2]
           rest == QsStringify(Tail(pairs))
       IN IF v.tag \in {"null", "undefined"} THEN rest
          ELSE IF rest = "" THEN k \o "=" \o IntToString(v.n)
          ELSE k \o "=" \o IntToString(v.n) \o "&" \o rest

\* resolve(parent, args) of the Facebook picture field
FacebookPictureResolve(parent, args) ==
  LET url == "https://graph.facebook.com/v2.3/" \o parent.id \o "/picture"
      queryString == QsStringify(Pick(args, <<"width", "height">>))
  IN IF queryString # "" THEN Return(url \o "?" \o queryString) ELSE Return(url)

(***************************************************************************)
(* ReindexTwitterCredential.picture                                        *)
(***************************************************************************)
NormalToken == <<"_", "n", "o", "r", "m", "a", "l", ".">>

\* the values of ReindexTwitterPictureSize (an enum value is its name)
TwitterPictureSizes ==
  { <<"n", "o", "r", "m", "a", "l">>, <<"b", "i", "g", "g", "e", "r">>,
    <<"m", "i", "n", "i">>, <<"o", "r", "i", "g", "i", "n", "a", "l">> }

Original == <<"o", "r", "i", "g", "i", "n", "a", "l">>

\* faulty variant: no defaultValue
TwitterArgsNoDefault(given) == given
\* the args the resolver receives: defaultValue 'original' for an omitted size
TwitterArgs(given) ==
  IF "size" \in DOMAIN given THEN given ELSE [size |-> Str(Original)]

\* String.prototype.replace: a TypeError on a receiver that is no string
StringReplace(v, pat, rep) ==
  IF v.tag = "string" THEN Return(Str(ReplaceFirst(v.chars, pat, rep)))
  ELSE Throw("TypeError", "url.replace is not a function")

\* 'x' + v for a string or omitted v
StringOf(v) ==
  IF v.tag = "string" THEN v.chars
  ELSE <<"u", "n", "d", "e", "f", "i", "n", "e", "d">>

\* resolve(parent, args) of the Twitter picture field
TwitterPictureResolve(parent, args) ==
  LET url == parent.picture
  IN IF ~Truthy(url) THEN Return(Null)
     ELSE IF Get(args, "size") = Str(Original)
     THEN StringReplace(url, NormalToken, <<".">>)
     ELSE StringReplace(url, NormalToken,
                        <<"_">> \o StringOf(Get(args, "size")) \o <<".">>)

(***************************************************************************)
(* Node's url and querystring modules, as ReindexGoogleCredential.picture   *)
(* uses them: Url.parse(url, true) and Url.format(urlObject).              *)
(***************************************************************************)
\* index of the first element of s that is in the set cs, 0 when there is none
FirstOf(s, cs) ==
  LET hits == {i \in 1..Len(s) : s[i] \in cs}
  IN IF hits = {} THEN 0 ELSE CHOOSE i \in hits : \A j \in hits : i <= j

StartsWith(s, pre) == Len(s) >= Len(pre) /\ SubSeq(s, 1, Len(pre)) = pre

\* String.prototype.split on a one-character separator
RECURSIVE Split(_, _)
Split(s, sep) ==
  LET i == FirstOf(s, {sep})
  IN IF i = 0 THEN <<s>>
     ELSE <<SubSeq(s, 1, i - 1)>> \o Split(SubSeq(s, i + 1, Len(s)), sep)

\* String.prototype.toLowerCase on the letters of the model
LowerChar(c) == CASE c = "G" -> "g" [] c = "H" -> "h" [] OTHER -> c
ToLowerCase(s) == [i \in 1..Len(s) |-> LowerChar(s[i])]

\* querystring.unescape after '+' is read as a space
RECURSIVE QsDecode(_)
QsDecode(s) ==
  IF s = <<>> THEN <<>>
  ELSE IF StartsWith(s, <<"%", "2", "0">>)
  THEN <<" ">> \o QsDecode(SubSeq(s, 4, Len(s)))
  ELSE IF Head(s) = "+" THEN <<" ">> \o QsDecode(Tail(s))
  ELSE <<Head(s)>> \o QsDecode(Tail(s))

\* querystring.escape
RECURSIVE QsEncode(_)
QsEncode(s) ==
  IF s = <<>> THEN <<>>
  ELSE IF Head(s) = " " THEN <<"%", "2", "0">> \o QsEncode(Tail(s))
  ELSE <<Head(s)>> \o QsEncode(Tail(s))

\* An object with string keys, in insertion order: a sequence of
\* [key, value] entries with distinct keys.
HasKey(obj, k) == \E i \in 1..Len(obj) : obj[i].key = k
KeyIndex(obj, k) == CHOOSE i \in 1..Len(obj) : obj[i].key = k
Lookup(obj, k) == IF HasKey(obj, k) THEN obj[KeyIndex(obj, k)].value ELSE Undefined
\* obj[k] = v
SetKey(obj, k, v) ==
  IF HasKey(obj, k)
  THEN [obj EXCEPT ![KeyIndex(obj, k)] = [key |-> k, value |-> v]]
  ELSE Append(obj, [key |-> k, value |-> v])
\* delete obj[k]
DeleteKey(obj, k) == SelectSeq(obj, LAMBDA e : e.key # k)

\* querystring.parse: a key met once holds a string, a key met again holds
\* the array of its values
QsAdd(obj, k, v) ==
  IF ~HasKey(obj, k) THEN Append(obj, [key |-> k, value |-> Str(v)])
  ELSE LET old == Lookup(obj, k)
       IN IF old.tag = "array"
          THEN SetKey(obj, k, [tag |-> "array", items |-> Append(old.items, v)])
          ELSE SetKey(obj, k, [tag |-> "array", items |-> <<old.chars, v>>])

QsParse(qs) ==
  IF qs = <<>> THEN <<>>
  ELSE LET pieces == Split(qs, "&")
           F[i \in 0..Len(pieces)] ==
             IF i = 0 THEN <<>>
             ELSE LET x == pieces[i]
                      idx == FirstOf(x, {"="})
                      k == IF idx > 0 THEN SubSeq(x, 1, idx - 1) ELSE x
                      v == IF idx > 0 THEN SubSeq(x, idx + 1, Len(x)) ELSE <<>>
                  IN QsAdd(F[i - 1], QsDecode(k), QsDecode(v))
       IN F[Len(pieces)]

\* querystring.stringify
QsValue(k, v) ==
  CASE v.tag = "string" -> QsEncode(k) \o <<"=">> \o QsEncode(v.chars)
    [] v.tag = "number" -> QsEncode(k) \o <<"=">> \o IntToChars(v.n)
    [] OTHER -> QsEncode(k) \o <<"=">>

RECURSIVE QsItems(_, _)
QsItems(k, items) ==
  IF items = <<>> THEN <<>>
  ELSE IF Len(items) = 1 THEN QsValue(k, Str(Head(items)))
  ELSE QsValue(k, Str(Head(items))) \o <<"&">> \o QsItems(k, Tail(items))

RECURSIVE QsFormat(_)
QsFormat(obj) ==
  IF obj = <<>> THEN <<>>
  ELSE LET e == Head(obj)
           this == IF e.value.tag = "array" THEN QsItems(e.key, e.value.items)
                   ELSE QsValue(e.key, e.value)
       IN IF Len(obj) = 1 THEN this ELSE this \o <<"&">> \o QsFormat(Tail(obj))

ProtocolChars == {"h", "t", "p", "s", "H"}
SlashedProtocols == {<<"h", "t", "t", "p", ":">>, <<"h", "t", "t", "p", "s", ":">>}

\* Url.parse(url, true) of a string without blanks, credentials or port,
\* in the order the parser works: protocol, slashes, host, hash, search and
\* query, pathname
UrlParsePath(protocol, slashes, host, hash, search, query, rest) ==
  [protocol |-> protocol, slashes |-> slashes, host |-> host,
   pathname |-> IF rest = <<>> /\ protocol \in SlashedProtocols /\ host # <<>>
                THEN <<"/">> ELSE rest,
   search |-> Str(search), query |-> query, hash |-> hash]

UrlParseSearch(protocol, slashes, host, hash, rest, qm) ==
  IF qm = 0
  THEN UrlParsePath(protocol, slashes, host, hash, <<>>, <<>>, rest)
  ELSE UrlParsePath(protocol, slashes, host, hash, SubSeq(rest, qm, Len(rest)),
                    QsParse(SubSeq(rest, qm + 1, Len(rest))),
                    SubSeq(rest, 1, qm - 1))

UrlParseHash(protocol, slashes, host, rest, hashAt) ==
  IF hashAt = 0
  THEN UrlParseSearch(protocol, slashes, host, <<>>, rest, FirstOf(rest, {"?"}))
  ELSE UrlParseSearch(protocol, slashes, host, SubSeq(rest, hashAt, Len(rest)),
                      SubSeq(rest, 1, hashAt - 1),
                      FirstOf(SubSeq(rest, 1, hashAt - 1), {"?"}))

UrlParseHost(protocol, rest, hostEnd) ==
  IF hostEnd = 0
  THEN UrlParseHash(protocol, TRUE, ToLowerCase(rest), <<>>, 0)
  ELSE UrlParseHash(protocol, TRUE, ToLowerCase(SubSeq(rest, 1, hostEnd - 1)),
                    SubSeq(rest, hostEnd, Len(rest)),
                    FirstOf(SubSeq(rest, hostEnd, Len(rest)), {"#"}))

UrlParseSlashes(protocol, rest) ==
  IF protocol # <<>> /\ StartsWith(rest, <<"/", "/">>)
  THEN UrlParseHost(protocol, SubSeq(rest, 3, Len(rest)),
                    FirstOf(SubSeq(rest, 3, Len(rest)), {"/", "?", "#"}))
  ELSE UrlParseHash(protocol, FALSE, <<>>, rest, FirstOf(rest, {"#"}))

UrlParseProtocol(url, colon) ==
  IF colon > 1 /\ \A i \in 1..(colon - 1) : url[i] \in ProtocolChars
  THEN UrlParseSlashes(ToLowerCase(SubSeq(url, 1, colon)),
                       SubSeq(url, colon + 1, Len(url)))
  ELSE UrlParseSlashes(<<>>, url)

UrlParse(url) == UrlParseProtocol(url, FirstOf(url, {":"}))

\* Url.format(urlObject): the search property wins over the query object
UrlFormat(u) ==
  LET query == QsFormat(u.query)
      search == IF u.search.tag = "string" /\ u.search.chars # <<>>
                THEN u.search.chars
                ELSE IF query # <<>> THEN <<"?">> \o query ELSE <<>>
      pathname == IF u.slashes /\ u.pathname # <<>> /\ Head(u.pathname) # "/"
                  THEN <<"/">> \o u.pathname ELSE u.pathname
  IN u.protocol \o (IF u.slashes THEN <<"/", "/">> ELSE <<>>) \o u.host \o
     pathname \o search \o u.hash

(***************************************************************************)
(* ReindexGoogleCredential.picture                                         *)
(***************************************************************************)
Sz == <<"s", "z">>

\* Url.parse: a TypeError on an argument that is no string
UrlParseValue(v) ==
  IF v.tag = "string" THEN Return(UrlParse(v.chars))
  ELSE Throw("TypeError", "Parameter 'url' must be a string")

\* delete urlObject.search
DeleteSearch(u) == [u EXCEPT !.search = Undefined]

\* urlObject.query.sz = args.size, or delete urlObject.query.sz
GoogleSetSize(urlObject, size) ==
  IF Truthy(size)
  THEN [urlObject EXCEPT !.query = SetKey(@, Sz, size)]
  ELSE [urlObject EXCEPT !.query = DeleteKey(@, Sz)]

GoogleFormat(parsed, size) ==
  IF parsed.kind = "throw" THEN parsed
  ELSE Return(Str(UrlFormat(DeleteSearch(GoogleSetSize(parsed.value, size)))))

\* faulty variant: without the test of the stored picture
GooglePictureResolveUnguarded(parent, args) ==
  GoogleFormat(UrlParseValue(parent.picture), Get(args, "size"))
\* resolve(parent, args) of the Google picture field
GooglePictureResolve(parent, args) ==
  IF ~Truthy(parent.picture) THEN Return(Null)
  ELSE GoogleFormat(UrlParseValue(parent.picture), Get(args, "size"))

(***************************************************************************)
(* IsConnectionValidator                                                   *)
(***************************************************************************)
\* a string used as a name (of a type, a field, a parameter)
Name(n) == [tag |-> "string", text |-> n]

\* Immutable Map.get: the map is a function on the keys it holds
MapGet(m, k) == IF k \in DOMAIN m THEN m[k] ELSE Undefined

\* schema/fields/isConnection
isConnection(field) == field.type = "Connection"

MissingFieldMessage(typeName, name) ==
  "Type \"" \o typeName \o "\" does not have a field \"" \o name \o "\"."

NotConnectionMessage(typeName, name) ==
  "Field \"" \o name \o "\" of \"" \o typeName \o
  "\" is not a connection. " \o "Expected a connection field."

\* faulty variant: a missing field passes
validateNoFieldCheck(this, sch, name, params) ==
  LET existingType == MapGet(sch.types, MapGet(params, this.typeParameter))
  IN IF existingType # Undefined
     THEN LET existingField == MapGet(existingType.fields, Name(name))
          IN IF existingField # Undefined /\ ~isConnection(existingField)
             THEN Throw("Error", NotConnectionMessage(existingType.name, name))
             ELSE Return(TRUE)
     ELSE Return(TRUE)
\* faulty variant: an absent type is an error
validateStrict(this, sch, name, params) ==
  LET existingType == MapGet(sch.types, MapGet(params, this.typeParameter))
  IN IF existingType # Undefined
     THEN LET existingField == MapGet(existingType.fields, Name(name))
          IN IF existingField = Undefined
             THEN Throw("Error", MissingFieldMessage(existingType.name, name))
             ELSE IF ~isConnection(existingField)
             THEN Throw("Error", NotConnectionMessage(existingType.name, name))
             ELSE Return(TRUE)
     ELSE Throw("Error", MissingFieldMessage("undefined", name))
\* faulty variant: any field passes, connection or not
validateAnyField(this, sch, name, params) ==
  LET existingType == MapGet(sch.types, MapGet(params, this.typeParameter))
  IN IF existingType # Undefined
     THEN LET existingField == MapGet(existingType.fields, Name(name))
          IN IF existingField = Undefined
             THEN Throw("Error", MissingFieldMessage(existingType.name, name))
             ELSE Return(TRUE)
     ELSE Return(TRUE)
\* validate(schema, name, parameters) of the rule this
validate(this, sch, name, params) ==
  LET existingType == MapGet(sch.types, MapGet(params, this.typeParameter))
  IN IF existingType # Undefined
     THEN LET existingField == MapGet(existingType.fields, Name(name))
          IN IF existingField = Undefined
             THEN Throw("Error", MissingFieldMessage(existingType.name, name))
             ELSE IF ~isConnection(existingField)
             THEN Throw("Error", NotConnectionMessage(existingType.name, name))
             ELSE Return(TRUE)
     ELSE Return(TRUE)

(***************************************************************************)
(* The inputs of the model.                                                *)
(***************************************************************************)
\* all sequences of at most n elements of S
RECURSIVE SeqsUpTo(_, _)
SeqsUpTo(S, n) ==
  IF n = 0 THEN {<<>>}
  ELSE LET shorter == SeqsUpTo(S, n - 1)
       IN shorter \cup {Append(q, x) : q \in shorter, x \in S}

NodeIDs == {[type |-> "User", value |-> v] : v \in {"u1", "u2"}}

\* context.credentials of a caller: anonymous callers have no userID
Contexts ==
  {[credentials |-> [isAdmin |-> a, userID |-> u]] :
     a \in BOOLEAN, u \in NodeIDs \cup {Null}}

SubRecord(provider, id, picture) ==
  [accessToken |-> "token-" \o provider, id |-> id, picture |-> picture]

DefaultCreds == [p \in Providers |-> SubRecord(p, "123", Undefined)]
DefaultNode == [id |-> [type |-> "User", value |-> "u1"]]

TwitterSegments ==
  { NormalToken, <<"_", "n", "o", "r", "m", "a", "l">>, <<".">>,
    <<"h", "/", "a">>, <<"p", "n", "g">> }

TwitterPictures ==
  {Undefined, Null, Str(<<>>)} \cup
  {Str(Concat(q)) : q \in SeqsUpTo(TwitterSegments, MaxSegs) \ {<<>>}}

GoogleBases ==
  { <<"h", "t", "t", "p", "s", ":", "/", "/", "g", ".", "c", "o", "/", "a">>,
    <<"H", "t", "t", "p", ":", "/", "/", "G", ".", "c", "o">>,
    <<"/", "a", "/", "p">> }

GoogleParams ==
  { <<"s", "z", "=", "5", "0">>, <<"s", "z", "=", "6", "4">>,
    <<"x", "=", "1">>, <<"q", "=", "a", "+", "b">> }

GoogleHashes == { <<>>, <<"#", "f">> }

RECURSIVE JoinWith(_, _)
JoinWith(ss, sep) ==
  IF ss = <<>> THEN <<>>
  ELSE IF Len(ss) = 1 THEN Head(ss)
  ELSE Head(ss) \o <<sep>> \o JoinWith(Tail(ss), sep)

GooglePictures ==
  {Undefined, Null, Str(<<>>)} \cup
  {Str(b \o (IF q = <<>> THEN <<>> ELSE <<"?">> \o JoinWith(q, "&")) \o h) :
     b \in GoogleBases, q \in SeqsUpTo(GoogleParams, MaxParams),
     h \in GoogleHashes}

Users ==
  {[node |-> DefaultNode,
    creds |-> [DefaultCreds EXCEPT !["twitter"] = SubRecord("twitter", "123", pic)]] :
     pic \in TwitterPictures}
  \cup
  {[node |-> DefaultNode,
    creds |-> [DefaultCreds EXCEPT !["google"] = SubRecord("google", "123", pic)]] :
     pic \in GooglePictures}
  \cup
  {[node |-> DefaultNode,
    creds |-> [DefaultCreds EXCEPT !["facebook"] = SubRecord("facebook", id, pic)]] :
     id \in {"123", "undefined"},
     pic \in {Undefined, Str(<<"h", "/", "a">>)}}
  \cup
  {[node |-> [id |-> n],
    creds |-> [p \in Providers |->
                 IF p \in linked THEN SubRecord(p, "123", Undefined) ELSE Undefined]] :
     n \in NodeIDs, linked \in SUBSET Providers}

FacebookArgValues == {Null, Num(0), Num(50)}
FacebookArgs ==
  UNION {[D -> FacebookArgValues] : D \in SUBSET {"width", "height"}}

GoogleArgs == UNION {[D -> {Num(0), Num(7), Num(100)}] : D \in SUBSET {"size"}}

TwitterGivenArgs ==
  UNION {[D -> {Str(z) : z \in TwitterPictureSizes}] : D \in SUBSET {"size"}}

FieldNames == {"comments", "title", "likes"}
FieldKeys == {Name("comments"), Name("title")}
Fields == {[type |-> "Connection"], [type |-> "String"]}
TypeKeys == {Name("User"), Name("Post")}
Types ==
  {[name |-> k.text, fields |-> f] :
     k \in TypeKeys, f \in UNION {[D -> Fields] : D \in SUBSET FieldKeys}}
Schemas ==
  {[types |-> t] :
     t \in UNION {{f \in [D -> Types] : \A k \in D : f[k].name = k.text} :
                    D \in SUBSET TypeKeys}}
ParameterKeys == {Name("type"), Name("ofType")}
ParameterMaps ==
  UNION {[D -> {Name("User"), Name("Post"), Name("Ghost")}] :
           D \in SUBSET ParameterKeys}
\* new IsConnectionValidator({typeParameter}); typeParameter defaults to
\* undefined
Rules == {[typeParameter |-> t] : t \in {Undefined} \cup ParameterKeys}

None == [kind |-> "none"]
Idle == [op |-> "none"]

(***************************************************************************)
(* The state machine: the stored user record and the schema are fixed by   *)
(* Init, each action is one call and records it with its outcome in last.  *)
(***************************************************************************)
Init ==
  /\ user \in Users
  /\ schema = [types |-> <<>>]
  /\ parameters = <<>>
  /\ rule = [typeParameter |-> Undefined]
  /\ seen = [n \in FieldNames |-> None]
  /\ last = Idle

\* a query of field `field` of the user's credentials
ResolveCredential(field, context) ==
  /\ last' = [op |-> "credential", field |-> field, context |-> context,
              result |-> CollectionResolve(field, user, context)]
  /\ UNCHANGED <<user, schema, parameters, rule, seen>>

FacebookPicture(args) ==
  /\ user.creds["facebook"] # Undefined
  /\ last' = [op |-> "facebook", args |-> args,
              result |-> FacebookPictureResolve(user.creds["facebook"], args)]
  /\ UNCHANGED <<user, schema, parameters, rule, seen>>

GooglePicture(args) ==
  /\ user.creds["google"] # Undefined
  /\ last' = [op |-> "google", args |-> args,
              result |-> GooglePictureResolve(user.creds["google"], args)]
  /\ UNCHANGED <<user, schema, parameters, rule, seen>>

TwitterPicture(given) ==
  /\ user.creds["twitter"] # Undefined
  /\ last' = [op |-> "twitter", given |-> given,
              result |-> TwitterPictureResolve(user.creds["twitter"],
                                               TwitterArgs(given))]
  /\ UNCHANGED <<user, schema, parameters, rule, seen>>

Next ==
  \/ \E field \in Providers, context \in Contexts : ResolveCredential(field, context)
  \/ \E args \in FacebookArgs : FacebookPicture(args)
  \/ \E args \in GoogleArgs : GooglePicture(args)
  \/ \E given \in TwitterGivenArgs : TwitterPicture(given)

Spec == Init /\ [][Next]_vars

(***************************************************************************)
(* The validator: a rule, a schema and a parameters map are fixed by       *)
(* ValidatorInit; seen keeps the outcome of the first call with each name  *)
(* and calls counts the calls.                                             *)
(***************************************************************************)
ValidatorInit ==
  /\ user = [node |-> DefaultNode, creds |-> DefaultCreds]
  /\ schema \in Schemas
  /\ parameters \in ParameterMaps
  /\ rule \in Rules
  /\ seen = [n \in FieldNames |-> None]
  /\ last = [op |-> "none", calls |-> 0]

\* faulty variant: the call removes the parameter it looked up
ValidateDropsParameter(name) ==
  /\ last.calls < MaxCalls
  /\ LET result == validate(rule, schema, name, parameters)
     IN /\ last' = [op |-> "validate", name |-> name, result |-> result,
                    repeated |-> seen[name] # None, calls |-> last.calls + 1]
        /\ seen' = IF seen[name] = None THEN [seen EXCEPT ![name] = result] ELSE seen
  /\ parameters' = [k \in DOMAIN parameters \ {rule.typeParameter} |-> parameters[k]]
  /\ UNCHANGED <<user, schema, rule>>
\* a call rule.validate(schema, name, parameters)
Validate(name) ==
  /\ last.calls < MaxCalls
  /\ LET result == validate(rule, schema, name, parameters)
     IN /\ last' = [op |-> "validate", name |-> name, result |-> result,
                    repeated |-> seen[name] # None, calls |-> last.calls + 1]
        /\ seen' = IF seen[name] = None THEN [seen EXCEPT ![name] = result] ELSE seen
  /\ UNCHANGED <<user, schema, parameters, rule>>

ValidatorNext == \E name \in FieldNames : Validate(name)

ValidatorSpec == ValidatorInit /\ [][ValidatorNext]_vars

(***************************************************************************)
(* Properties of the credential collection (under Spec).                   *)
(***************************************************************************)
Caller == last.context.credentials
Owner == user.node.id

\* the message names the field path credentials.<provider>
NamesFieldPath(message, provider) ==
  \E i \in 1..(Len(message) - 1) :
    message[i] = "credentials." /\ message[i + 1] = provider

\* C1: a caller that is no admin and whose userID is not the id of the
\* parent's node gets, for every provider field, a thrown UserError whose
\* message names credentials.<provider>, and nothing of the sub-record.
C1_OthersAreDenied ==
  (last.op = "credential" /\ ~Caller.isAdmin /\ Caller.userID # Owner)
    => /\ last.result.kind = "throw"
       /\ last.result.error = "UserError"
       /\ NamesFieldPath(last.result.message, last.field)
       /\ "value" \notin DOMAIN last.result

C1_Witness ==
  /\ last.op = "credential"
  /\ ~Caller.isAdmin
  /\ Caller.userID \in NodeIDs
  /\ Caller.userID # Owner
  /\ user.creds[last.field] # Undefined
  /\ last.field = "google"
  /\ last.result.kind = "throw"

\* C2: an admin (whatever the userID) or the owner gets, for every provider
\* field, the parent's stored sub-record of that same provider, returned
\* without error, and no other provider's sub-record.
C2_AdminOrOwnerReads ==
  (last.op = "credential" /\ (Caller.isAdmin \/ Caller.userID = Owner))
    => /\ last.result.kind = "return"
       /\ last.result.value = user.creds[last.field]
       /\ \A p \in Providers \ {last.field} :
            user.creds[p] # Undefined => last.result.value # user.creds[p]

C2_Witness ==
  /\ last.op = "credential"
  /\ ~Caller.isAdmin
  /\ Caller.userID = Owner
  /\ last.field = "twitter"
  /\ user.creds["twitter"] # Undefined
  /\ user.creds["github"] # Undefined
  /\ last.result = Return(user.creds["twitter"])

(***************************************************************************)
(* Properties of the picture resolvers (under Spec).                       *)
(***************************************************************************)
Stored(provider) == user.creds[provider].picture
IsUrl(v) == v.tag = "string" /\ v.chars # <<>>

OccursAt(s, pat, i) ==
  i + Len(pat) - 1 <= Len(s) /\ SubSeq(s, i, i + Len(pat) - 1) = pat
Contains(s, pat) == \E i \in 1..Len(s) : OccursAt(s, pat, i)
\* s with the leftmost occurrence of pat (at i) replaced by rep
IsLeftmostReplaced(out, s, pat, rep) ==
  \E i \in 1..Len(s) :
    /\ OccursAt(s, pat, i)
    /\ \A j \in 1..(i - 1) : ~OccursAt(s, pat, j)
    /\ out = SubSeq(s, 1, i - 1) \o rep \o SubSeq(s, i + Len(pat), Len(s))

\* C7: for a stored URL that contains _normal., size original (also when no
\* size is supplied) returns the URL with the token replaced by a dot, any
\* other size s the URL with the token replaced by _s. (the leftmost
\* occurrence), so size normal returns the stored URL.
C7_TwitterSizes ==
  (last.op = "twitter" /\ IsUrl(Stored("twitter"))
     /\ Contains(Stored("twitter").chars, NormalToken))
    => LET url == Stored("twitter").chars
           size == IF "size" \in DOMAIN last.given
                   THEN last.given.size.chars ELSE Original
           out == last.result.value
       IN /\ last.result.kind = "return"
          /\ out.tag = "string"
          /\ size = Original =>
               IsLeftmostReplaced(out.chars, url, NormalToken, <<".">>)
          /\ size # Original =>
               IsLeftmostReplaced(out.chars, url, NormalToken,
                                  <<"_">> \o size \o <<".">>)
          /\ size = <<"n", "o", "r", "m", "a", "l">> => out.chars = url

C7_Witness ==
  /\ last.op = "twitter"
  /\ "size" \notin DOMAIN last.given
  /\ Stored("twitter") = Str(<<"h", "/", "a">> \o NormalToken \o <<"p", "n", "g">>)
  /\ last.result = Return(Str(<<"h", "/", "a", ".", "p", "n", "g">>))

\* the parts of a URL other than its sz parameter
OtherParts(url) ==
  LET u == UrlParse(url)
  IN [protocol |-> u.protocol, host |-> u.host, pathname |-> u.pathname,
      query |-> DeleteKey(u.query, Sz), hash |-> u.hash]

GoogleSizeGiven == "size" \in DOMAIN last.args

\* C8: for a stored URL, a given size makes the returned URL carry one sz
\* parameter equal to that size, no given size makes it carry none, and in
\* both cases the other parts of the URL are those of the stored one.
C8_GoogleSize ==
  (last.op = "google" /\ IsUrl(Stored("google")))
    => LET out == last.result.value
       IN /\ last.result.kind = "return"
          /\ out.tag = "string"
          /\ GoogleSizeGiven =>
               Lookup(UrlParse(out.chars).query, Sz)
                 = Str(IntToChars(last.args.size.n))
          /\ ~GoogleSizeGiven => ~HasKey(UrlParse(out.chars).query, Sz)
          /\ OtherParts(out.chars) = OtherParts(Stored("google").chars)

\* C8 for the sizes the code takes as given (all but 0), with a size of 0
\* treated as no size.
C8_GoogleNonZeroSize ==
  (last.op = "google" /\ IsUrl(Stored("google")))
    => LET out == last.result.value
           sized == GoogleSizeGiven /\ last.args.size.n # 0
       IN /\ last.result.kind = "return"
          /\ out.tag = "string"
          /\ sized =>
               Lookup(UrlParse(out.chars).query, Sz)
                 = Str(IntToChars(last.args.size.n))
          /\ ~sized => ~HasKey(UrlParse(out.chars).query, Sz)
          /\ OtherParts(out.chars) = OtherParts(Stored("google").chars)

FacebookGiven(key) ==
  key \in DOMAIN last.args /\ last.args[key].tag = "number"

\* C9: the Facebook picture is the Graph API URL of the stored id, followed
\* by a query string of exactly the width and height that were given with a
\* non-null value, and by nothing when neither was.
C9_FacebookPicture ==
  last.op = "facebook"
    => LET base == "https://graph.facebook.com/v2.3/" \o
                     user.creds["facebook"].id \o "/picture"
           width == "width=" \o IntToString(last.args["width"].n)
           height == "height=" \o IntToString(last.args["height"].n)
           expected ==
             CASE FacebookGiven("width") /\ FacebookGiven("height") ->
                    base \o "?" \o width \o "&" \o height
               [] FacebookGiven("width") /\ ~FacebookGiven("height") ->
                    base \o "?" \o width
               [] ~FacebookGiven("width") /\ FacebookGiven("height") ->
                    base \o "?" \o height
               [] OTHER -> base
       IN last.result = Return(expected)

C9_Witness ==
  /\ last.op = "facebook"
  /\ last.args = [width |-> Num(50), height |-> Null]
  /\ Stored("facebook") # Undefined
  /\ last.result = Return("https://graph.facebook.com/v2.3/123/picture?width=50")

HasTypeParameter == rule.typeParameter \in DOMAIN parameters
HasReferencedType ==
  HasTypeParameter /\ parameters[rule.typeParameter] \in DOMAIN schema.types
ReferencedType == schema.types[parameters[rule.typeParameter]]
HasNamedField == Name(last.name) \in DOMAIN ReferencedType.fields
NamedField == ReferencedType.fields[Name(last.name)]

\* C3: validate returns true, for every field name, when the schema has no
\* type under the name parameters[typeParameter], also when typeParameter
\* is no key of parameters.
C3_AbsentTypeIsSkipped ==
  (last.op = "validate" /\ ~HasReferencedType) => last.result = Return(TRUE)

C3_Witness ==
  /\ last.op = "validate"
  /\ ~HasTypeParameter
  /\ rule.typeParameter # Undefined
  /\ DOMAIN parameters # {}
  /\ Name("User") \in DOMAIN schema.types
  /\ last.result = Return(TRUE)

\* C4: when the referenced type exists and has no field of the name,
\* validate throws an error with the message
\* Type "<TypeName>" does not have a field "<fieldName>".
\* whatever the other fields of the type are.
C4_MissingField ==
  (last.op = "validate" /\ HasReferencedType /\ ~HasNamedField)
    => /\ last.result.kind = "throw"
       /\ last.result.message =
            "Type \"" \o ReferencedType.name \o "\" does not have a field \""
              \o last.name \o "\"."

C4_Witness ==
  /\ last.op = "validate"
  /\ HasReferencedType
  /\ DOMAIN ReferencedType.fields = {Name("title")}
  /\ last.result.kind = "throw"
  /\ last.result.message = "Type \"User\" does not have a field \"comments\"."

\* C5: when the referenced type exists and has the field, validate returns
\* true exactly when isConnection holds of the field, and otherwise throws
\* Field "<fieldName>" of "<TypeName>" is not a connection. Expected a
\* connection field.
C5_ConnectionField ==
  (last.op = "validate" /\ HasReferencedType /\ HasNamedField)
    => /\ (last.result = Return(TRUE)) <=> isConnection(NamedField)
       /\ ~isConnection(NamedField) =>
            /\ last.result.kind = "throw"
            /\ last.result.message =
                 "Field \"" \o last.name \o "\" of \"" \o ReferencedType.name
                   \o "\" is not a connection. Expected a connection field."

C5_Witness ==
  /\ last.op = "validate"
  /\ HasReferencedType
  /\ HasNamedField
  /\ ~isConnection(NamedField)
  /\ last.result.kind = "throw"
  /\ last.result.message =
       "Field \"title\" of \"Post\" is not a connection. Expected a connection field."

====
